---- MODULE Spec2Model ----
(***************************************************************************)
(* Model of the currency converter plugin (src/__init__.py):               *)
(*   EuropeanCentralBank  - the exchange-rate cache                        *)
(*   Plugin               - query parsing, alias resolution, item building *)
(* Time is counted in hours since the epoch.  Floats are binary floating   *)
(* point numbers with a Precision-bit significand, rounded to nearest,     *)
(* ties to even, as the interpreter's float arithmetic does with 53 bits.  *)
(***************************************************************************)
EXTENDS Integers, Sequences, FiniteSets, TLC

\* ------------------------------------------------------------------ bounds
Precision == 6      \* significand bits of the modelled float
StartTime == 4      \* hours since the epoch at process start (> CACHE_TIME)
MaxTime   == 8      \* the clock is observed up to this hour
MaxLeaves == 2      \* leaves of a feed document

\* ------------------------------------------------------ program constants
CACHE_TIME == 3     \* timedelta(hours=3)

\* EPOCH, were last_update initialised with the time of construction
EPOCH_Recent == StartTime

EPOCH      == 0     \* datetime.fromtimestamp(0, UTC)

\* ------------------------------------------------------------------ floats
RECURSIVE Pow2(_)
Pow2(n) == IF n <= 0 THEN 1 ELSE 2 * Pow2(n - 1)

Abs(x) == IF x < 0 THEN -x ELSE x

Sign(x) == IF x < 0 THEN -1 ELSE 1

FZero == [m |-> 0, e |-> 0]

\* The float nearest to (n / d) * 2^e for n, d > 0 (round half to even).
RECURSIVE RoundPos(_, _, _)
RoundPos(n, d, e) ==
    IF n >= d * Pow2(Precision) THEN RoundPos(n, 2 * d, e + 1)
    ELSE IF n < d * Pow2(Precision - 1) THEN RoundPos(2 * n, d, e - 1)
    ELSE LET q  == n \div d
             r  == n % d
             up == (2 * r > d) \/ (2 * r = d /\ q % 2 = 1)
             m  == IF up THEN q + 1 ELSE q
         IN  IF m = Pow2(Precision)
             THEN [m |-> Pow2(Precision - 1), e |-> e + 1]
             ELSE [m |-> m, e |-> e]

\* The float nearest to (n / d) * 2^e, any sign of n, d > 0.
Round(n, d, e) ==
    IF n = 0 THEN FZero
    ELSE LET p == RoundPos(Abs(n), d, e)
         IN  [m |-> Sign(n) * p.m, e |-> p.e]

\* a / b on floats, b # 0
FDiv(a, b) == Round(a.m * Sign(b.m), Abs(b.m), a.e - b.e)

\* a * b on floats
FMul(a, b) == Round(a.m * b.m, 1, a.e + b.e)

\* Exact comparison of two floats: a.m * 2^a.e - b.m * 2^b.e, scaled by a
\* positive power of two.
FDiff(a, b) ==
    LET lo == IF a.e < b.e THEN a.e ELSE b.e
    IN  a.m * Pow2(a.e - lo) - b.m * Pow2(b.e - lo)

\* The decimal literals the model's tokens and feed attributes denote, as
\* <<numerator, denominator>>; <<>> for a string that is not a number.
Decimal(s) ==
    CASE s = "1"    -> <<1, 1>>
      [] s = "10"   -> <<10, 1>>
      [] s = "15"   -> <<15, 1>>
      [] s = "1.1"  -> <<11, 10>>
      [] s = "0.85" -> <<17, 20>>
      [] OTHER      -> <<>>

IsNumeric(s) == Decimal(s) # <<>>

\* float(s) for a numeric string: the nearest float to the decimal value
float(s) == Round(Decimal(s)[1], Decimal(s)[2], 0)

\* f'{x:.2f}': the exact value of x rounded half-even to hundredths, as the
\* integer number of hundredths
Format2f(x) ==
    LET n == Abs(x.m) * 100 * (IF x.e > 0 THEN Pow2(x.e) ELSE 1)
        d == IF x.e < 0 THEN Pow2(-x.e) ELSE 1
        q == n \div d
        r == n % d
        up == (2 * r > d) \/ (2 * r = d /\ q % 2 = 1)
    IN  Sign(x.m) * (IF up THEN q + 1 ELSE q)

\* ----------------------------------------------------------------- strings
\* str.lower and str.upper on the strings of the model
lower(s) ==
    CASE s \in {"usd", "USD"}             -> "usd"
      [] s \in {"eur", "EUR"}             -> "eur"
      [] s \in {"gbp", "GBP"}             -> "gbp"
      [] s \in {"bucks", "Bucks", "BUCKS"} -> "bucks"
      [] s \in {"abc", "ABC"}             -> "abc"
      [] OTHER                            -> s

upper(s) ==
    CASE s \in {"usd", "USD"}             -> "USD"
      [] s \in {"eur", "EUR"}             -> "EUR"
      [] s \in {"gbp", "GBP"}             -> "GBP"
      [] s \in {"bucks", "Bucks", "BUCKS"} -> "BUCKS"
      [] s \in {"abc", "ABC"}             -> "ABC"
      [] OTHER                            -> s

\* ------------------------------------------------------------------- dicts
EmptyDict == [k \in {} |-> FZero]

Put(d, k, v) == [x \in (DOMAIN d) \cup {k} |-> IF x = k THEN v ELSE d[x]]

Get(d, k, default) == IF k \in DOMAIN d THEN d[k] ELSE default

\* ------------------------------------------------------------- environment
None == "<None>"

Errors == {"URLError", "ParseError", "KeyError", "ValueError"}

\* The attributes of one leaf element of the feed
Attrib(keys, c, r) == [k \in keys |-> IF k = "currency" THEN c ELSE r]

LeafSet ==
    { Attrib({"currency", "rate"}, "USD", "1.1"),
      Attrib({"currency", "rate"}, "GBP", "0.85"),
      Attrib({"currency", "rate"}, "EUR", "1.1"),
      Attrib({"currency", "rate"}, "GBP", "bad"),
      Attrib({"currency"}, "GBP", ""),
      Attrib({"rate"}, "", "1.1") }

\* What urlopen(URL) can deliver: no response at all, bytes that are not
\* well-formed XML, or a document with its namespace declarations (by
\* prefix).  The leaves at ./Cube/Cube/Cube of a document are drawn from
\* LeafSet one by one as the loop reaches them, at most MaxLeaves of them.
Responses ==
    { [ok |-> FALSE, wellformed |-> FALSE, prefixes |-> {}],
      [ok |-> TRUE,  wellformed |-> FALSE, prefixes |-> {}],
      [ok |-> TRUE,  wellformed |-> TRUE,  prefixes |-> {"gesmes"}],
      [ok |-> TRUE,  wellformed |-> TRUE,  prefixes |-> {"", "gesmes"}] }

\* settings.json: absent, or a JSON object with optional keys
SettingsFiles ==
    { [exists |-> FALSE, keys |-> {}, aliases |-> <<>>, defaults |-> <<>>],
      [exists |-> TRUE, keys |-> {"aliases", "defaults"},
       aliases |-> << <<"usd", <<"Bucks">> >> >>,
       defaults |-> <<"USD", "GBP", "EUR">>] }

AmountTokens == {"1", "10"}

SourceTokens == {"usd", "Bucks"}

DestTokens == {"usd", "GBP"}

\* The query texts the host sends, already split at whitespace
Queries ==
    { <<>>, <<"10">>, <<"abc", "usd">>, <<"usd", "10", "eur">>,
      <<"10", "usd", "eur", "GBP">> }
    \cup { <<"10", s>> : s \in SourceTokens \cup {"GBP"} }
    \cup { <<"15", "GBP", "GBP">> }
    \cup { <<a, s, d>> : a \in AmountTokens, s \in SourceTokens, d \in DestTokens }

\* ------------------------------------------------------------------- state
VARIABLES
    now,               \* the wall clock, datetime.now(UTC)
    last_update,       \* EuropeanCentralBank.last_update
    euro_to_currency,  \* EuropeanCentralBank.euro_to_currency
    aliases,           \* Plugin.aliases
    defaults_dests,    \* Plugin.defaults_dests
    pc,                \* position of the running query
    parts,             \* items(): ctx.query.split()
    src_amount,        \* items(): float(src_amount)
    src_currency,      \* items(): resolved source
    dest_currency,     \* items(): resolved explicit destination or None
    pending,           \* items(): destinations the for loop has not visited
    items,             \* items(): the list built / yielded
    cur_dest,          \* create_item(): dest_currency argument
    cur_time,          \* update_exchange_rates(): cur_time
    leaves_read,       \* update_exchange_rates(): leaves the loop has visited
    outcome,           \* what the host got from the last query
    host_error,        \* the exception the host got, if any
    pre_rates,         \* euro_to_currency when the current convert call began
    pre_last_update,   \* last_update when the current convert call began
    fetches,           \* urlopen calls of the current convert call
    refresh,           \* how update_exchange_rates ended in this call:
                       \* "hit", "ok" or the exception it raised
    convert_result,    \* how get_amount_in_dest_currency ended
    attempted,         \* the create_item calls of this query that have
                       \* ended: destination, whether an amount came back,
                       \* its urlopen calls and how its refresh ended
    feed,              \* the currency and rate attributes of the leaves the
                       \* current refresh has read from its document
    dirty,             \* euro_to_currency has been written since the last
                       \* successful refresh ended (or since construction)
    pcB,               \* position of a second, concurrent convert call
    b_time,            \* update_exchange_rates() of that call: cur_time
    b_leaves,          \* update_exchange_rates() of that call: leaves visited
    b_result,          \* how that call ended
    b_seen             \* the euro_to_currency that call read at its
                       \* membership test

cacheVars == <<last_update, euro_to_currency>>
configVars == <<aliases, defaults_dests>>
queryVars == <<parts, src_amount, src_currency, dest_currency>>
callVars == <<pre_rates, pre_last_update, fetches, refresh, convert_result>>
bVars == <<pcB, b_time, b_leaves, b_result, b_seen>>
vars == <<now, last_update, euro_to_currency, aliases, defaults_dests, pc, parts,
          src_amount, src_currency, dest_currency, pending, items, cur_dest,
          cur_time, leaves_read, outcome, host_error, pre_rates, pre_last_update,
          fetches, refresh, convert_result, attempted, feed, dirty, pcB, b_time,
          b_leaves, b_result, b_seen>>

NoResult == [kind |-> "none", error |-> "", value |-> FZero]

\* ----------------------------------------------------------- Plugin.__init__
\* for alias in aliases: self.aliases[alias.lower()] = currency_name.upper()
RECURSIVE AddAliases(_, _, _)
AddAliases(d, currency_name, als) ==
    IF als = <<>> THEN d
    ELSE AddAliases(Put(d, lower(Head(als)), upper(currency_name)), currency_name, Tail(als))

\* for currency_name, aliases in settings['aliases'].items(): ...
RECURSIVE LoadAliases(_, _)
LoadAliases(d, entries) ==
    IF entries = <<>> THEN d
    ELSE LoadAliases(AddAliases(d, Head(entries)[1], Head(entries)[2]), Tail(entries))

InitAliases(s) ==
    IF s.exists /\ "aliases" \in s.keys THEN LoadAliases(EmptyDict, s.aliases) ELSE EmptyDict

InitDefaults(s) ==
    IF s.exists /\ "defaults" \in s.keys THEN s.defaults ELSE <<>>

Init ==
    /\ now = StartTime
    /\ last_update = EPOCH
    /\ euro_to_currency = EmptyDict
    /\ \E s \in SettingsFiles :
          /\ aliases = InitAliases(s)
          /\ defaults_dests = InitDefaults(s)
    /\ pc = "idle"
    /\ parts = <<>>
    /\ src_amount = FZero
    /\ src_currency = ""
    /\ dest_currency = None
    /\ pending = <<>>
    /\ items = <<>>
    /\ cur_dest = ""
    /\ cur_time = EPOCH
    /\ leaves_read = 0
    /\ outcome = "none"
    /\ host_error = ""
    /\ pre_rates = EmptyDict
    /\ pre_last_update = EPOCH
    /\ fetches = 0
    /\ refresh = "none"
    /\ convert_result = NoResult
    /\ attempted = <<>>
    /\ feed = EmptyDict
    /\ dirty = FALSE
    /\ pcB = "idle"
    /\ b_time = EPOCH
    /\ b_leaves = 0
    /\ b_seen = EmptyDict
    /\ b_result = "none"

\* ------------------------------------------------------------------ Plugin
\* get_alias without the case folding of the token
get_alias_NoLower(currency_name) ==
    upper(Get(aliases, currency_name, currency_name))

get_alias(currency_name) ==
    upper(Get(aliases, lower(currency_name), lower(currency_name)))

\* Parses, accepting any query of two or more tokens
Parses_AtLeastTwo(q) == Len(q) >= 2 /\ IsNumeric(q[1])

\* items(): the match on len(parts) and float(src_amount) raise no ValueError
Parses(q) == Len(q) \in {2, 3} /\ IsNumeric(q[1])

\* create_item(): the StandardItem built from a converted amount
StandardItem(amount, src, dest, dest_amount) ==
    [id      |-> <<src, dest>>,
     text    |-> <<Format2f(dest_amount), dest>>,
     subtext |-> <<Format2f(amount), src, dest>>,
     copy    |-> <<Format2f(dest_amount), dest>>]

\* create_item(): except ValueError: pass
Caught(e) == e = "ValueError"

\* ----------------------------------------------------- EuropeanCentralBank
\* CacheHit with the boundary excluded
CacheHit_Strict(cur, last) == cur - last < CACHE_TIME

\* update_exchange_rates(): the early return
CacheHit(cur, last) == cur - last <= CACHE_TIME

\* Known, rejecting a conversion of a currency into itself
Known_NotSame(rates, src, dest) ==
    src \in DOMAIN rates /\ dest \in DOMAIN rates /\ src # dest

\* get_amount_in_dest_currency(): the membership test before the division
Known(rates, src, dest) == src \in DOMAIN rates /\ dest \in DOMAIN rates

\* Amount with the two rates exchanged
Amount_Inverted(amount, rate_src, rate_dest) ==
    FMul(FDiv(amount, rate_dest), rate_src)

\* Amount without the division by the source rate
Amount_NoDivision(amount, rate_src, rate_dest) == FMul(amount, rate_dest)

\* get_amount_in_dest_currency(): the returned amount
Amount(amount, rate_src, rate_dest) == FMul(FDiv(amount, rate_src), rate_dest)

\* update_exchange_rates(): the exception raised between urlopen and
\* findall for a response, "" when there is none
FetchError(r) ==
    IF ~r.ok THEN "URLError"                    \* urlopen / response.read()
    ELSE IF ~r.wellformed THEN "ParseError"     \* ET.iterparse
    ELSE IF "" \notin r.prefixes THEN "KeyError" \* namespaces['']
    ELSE ""

\* update_exchange_rates(): the exception raised by the loop body for a
\* leaf, "" when there is none (the right-hand side is evaluated first)
LeafError(leaf) ==
    IF "rate" \notin DOMAIN leaf THEN "KeyError"
    ELSE IF ~IsNumeric(leaf["rate"]) THEN "ValueError"
    ELSE IF "currency" \notin DOMAIN leaf THEN "KeyError"
    ELSE ""

\* self.euro_to_currency[leaf.attrib['currency']] = float(leaf.attrib['rate'])
InsertedLeaf(rates, leaf) == Put(rates, leaf["currency"], float(leaf["rate"]))

\* self.euro_to_currency['EUR'] = 1.0
Seeded(rates) == Put(rates, "EUR", float("1"))

\* ----------------------------------------------------------------- actions
\* The clock advances by an hour: between two queries, or while urlopen
\* blocks (the other steps of a query take no time at this scale).
Tick ==
    /\ pc \in {"idle", "fetch"}
    /\ now < MaxTime
    /\ now' = now + 1
    /\ UNCHANGED <<cacheVars, configVars, queryVars, callVars, pc, pending, items,
                   cur_dest, cur_time, leaves_read, outcome, host_error, attempted>>
    /\ UNCHANGED <<dirty, bVars>>
    /\ UNCHANGED feed

\* items(): the host sends a query; the try block up to the alias resolution
Query(q) ==
    /\ pc = "idle"
    /\ parts' = q
    /\ items' = <<>>
    /\ host_error' = ""
    /\ attempted' = <<>>
    /\ cur_dest' = ""
    /\ cur_time' = EPOCH
    /\ leaves_read' = 0
    /\ pre_rates' = euro_to_currency
    /\ pre_last_update' = last_update
    /\ fetches' = 0
    /\ refresh' = "none"
    /\ convert_result' = NoResult
    /\ feed' = EmptyDict
    /\ IF Parses(q)
       THEN /\ src_amount' = float(q[1])
            /\ src_currency' = get_alias(q[2])
            /\ dest_currency' = IF Len(q) = 3 THEN get_alias(q[3]) ELSE None
            /\ pending' = IF Len(q) = 3 THEN <<>> ELSE defaults_dests
            /\ pc' = IF Len(q) = 3 THEN "explicit" ELSE "loop"
            /\ outcome' = "none"
       ELSE /\ src_amount' = FZero
            /\ src_currency' = ""
            /\ dest_currency' = None
            /\ pending' = <<>>
            /\ pc' = "idle"
            /\ outcome' = "returned"
    /\ UNCHANGED <<now, cacheVars, configVars>>
    /\ UNCHANGED <<dirty, bVars>>

\* create_item() is entered with destination dest and calls
\* get_amount_in_dest_currency()
BeginCall(dest) ==
    /\ cur_dest' = dest
    /\ pc' = "check"
    /\ pre_rates' = euro_to_currency
    /\ pre_last_update' = last_update
    /\ fetches' = 0
    /\ refresh' = "none"
    /\ convert_result' = NoResult
    /\ leaves_read' = 0
    /\ feed' = EmptyDict

\* create_item() returns res (<<item>>, or <<>> for None) to items()
Returned(res) ==
    /\ host_error' = host_error
    /\ IF dest_currency # None
       THEN /\ pc' = "idle"
            /\ items' = res
            /\ outcome' = IF res # <<>> THEN "yielded" ELSE "returned"
       ELSE /\ pc' = "loop"
            /\ items' = items \o res
            /\ outcome' = outcome

\* get_amount_in_dest_currency() raises e: create_item() swallows it or it
\* leaves items() for the host
Raise(e) ==
    /\ convert_result' = [kind |-> "error", error |-> e, value |-> FZero]
    /\ attempted' = Append(attempted, [dest |-> cur_dest, ok |-> FALSE,
                                       fetches |-> fetches', refresh |-> refresh'])
    /\ IF Caught(e)
       THEN Returned(<<>>)
       ELSE /\ pc' = "idle"
            /\ items' = <<>>
            /\ outcome' = "raised"
            /\ host_error' = e

\* Abort, with the exception swallowed inside the cache: the call goes on
\* to the lookup
Abort_Swallowed(e) ==
    /\ refresh' = e
    /\ pc' = "lookup"
    /\ UNCHANGED <<items, outcome, host_error, convert_result, attempted>>

\* update_exchange_rates() raises e; get_amount_in_dest_currency() has no
\* handler around the call, so it raises e as well
Abort(e) ==
    /\ refresh' = e
    /\ Raise(e)

\* Explicit, with the self-conversion skip of the defaults loop applied
Explicit_SkipsSelf ==
    /\ pc = "explicit"
    /\ IF dest_currency = src_currency
       THEN /\ pc' = "idle"
            /\ outcome' = "returned"
            /\ UNCHANGED <<callVars, cur_dest, leaves_read, feed>>
       ELSE /\ BeginCall(dest_currency)
            /\ UNCHANGED outcome
    /\ UNCHANGED <<now, cacheVars, configVars, queryVars, pending, items, cur_time,
                   host_error, attempted>>
    /\ UNCHANGED <<dirty, bVars>>

\* items(): the explicit-destination branch
Explicit ==
    /\ pc = "explicit"
    /\ BeginCall(dest_currency)
    /\ UNCHANGED <<now, cacheVars, configVars, queryVars, pending, items, cur_time,
                   outcome, host_error, attempted>>
    /\ UNCHANGED <<dirty, bVars>>

\* items(): the for loop is exhausted, yield items
LoopEnd ==
    /\ pc = "loop"
    /\ pending = <<>>
    /\ pc' = "idle"
    /\ outcome' = "yielded"
    /\ UNCHANGED <<now, cacheVars, configVars, queryVars, callVars, pending, items,
                   cur_dest, cur_time, leaves_read, host_error, attempted>>
    /\ UNCHANGED <<dirty, bVars>>
    /\ UNCHANGED feed

\* items(): if dest_currency == src_currency: continue
LoopSkip ==
    /\ pc = "loop"
    /\ pending # <<>>
    /\ Head(pending) = src_currency
    /\ pending' = Tail(pending)
    /\ UNCHANGED <<now, cacheVars, configVars, queryVars, callVars, pc, items,
                   cur_dest, cur_time, leaves_read, outcome, host_error, attempted>>
    /\ UNCHANGED <<dirty, bVars>>
    /\ UNCHANGED feed

\* items(): the loop body calls create_item()
LoopCall ==
    /\ pc = "loop"
    /\ pending # <<>>
    /\ Head(pending) # src_currency
    /\ pending' = Tail(pending)
    /\ BeginCall(Head(pending))
    /\ UNCHANGED <<now, cacheVars, configVars, queryVars, items, cur_time,
                   outcome, host_error, attempted>>
    /\ UNCHANGED <<dirty, bVars>>

\* update_exchange_rates(): read the clock and test the cache window
CheckStale ==
    /\ pc = "check"
    /\ cur_time' = now
    /\ IF CacheHit(now, last_update)
       THEN pc' = "lookup" /\ refresh' = "hit"
       ELSE pc' = "clear" /\ refresh' = refresh
    /\ UNCHANGED <<now, cacheVars, configVars, queryVars, pending, items, cur_dest,
                   leaves_read, outcome, host_error, pre_rates, pre_last_update,
                   fetches, convert_result, attempted>>
    /\ UNCHANGED <<dirty, bVars>>
    /\ UNCHANGED feed

\* Clear, keeping the entries of the previous snapshot
Clear_Keeps ==
    /\ pc = "clear"
    /\ pc' = "seed"
    /\ UNCHANGED <<now, cacheVars, configVars, queryVars, callVars, pending, items,
                   cur_dest, cur_time, leaves_read, outcome, host_error, attempted>>
    /\ dirty' = TRUE
    /\ UNCHANGED <<bVars, feed>>

\* update_exchange_rates(): self.euro_to_currency.clear()
Clear ==
    /\ pc = "clear"
    /\ euro_to_currency' = EmptyDict
    /\ pc' = "seed"
    /\ UNCHANGED <<now, last_update, configVars, queryVars, callVars, pending, items,
                   cur_dest, cur_time, leaves_read, outcome, host_error, attempted>>
    /\ dirty' = TRUE
    /\ UNCHANGED bVars
    /\ UNCHANGED feed

\* Seed, with last_update set before the fetch instead of after it
Seed_Stamps ==
    /\ pc = "seed"
    /\ euro_to_currency' = Seeded(euro_to_currency)
    /\ last_update' = now
    /\ pc' = "fetch"
    /\ UNCHANGED <<now, configVars, queryVars, callVars, pending, items,
                   cur_dest, cur_time, leaves_read, outcome, host_error, attempted>>
    /\ dirty' = TRUE
    /\ UNCHANGED <<bVars, feed>>

\* update_exchange_rates(): self.euro_to_currency['EUR'] = 1.0
Seed ==
    /\ pc = "seed"
    /\ euro_to_currency' = Seeded(euro_to_currency)
    /\ pc' = "fetch"
    /\ UNCHANGED <<now, last_update, configVars, queryVars, callVars, pending, items,
                   cur_dest, cur_time, leaves_read, outcome, host_error, attempted>>
    /\ dirty' = TRUE
    /\ UNCHANGED bVars
    /\ UNCHANGED feed

\* Fetch, with last_update advanced when the fetch fails
Fetch_StampsOnFailure(r) ==
    /\ pc = "fetch"
    /\ fetches' = fetches + 1
    /\ IF FetchError(r) # ""
       THEN /\ Abort(FetchError(r))
            /\ last_update' = now
       ELSE /\ pc' = "insert"
            /\ UNCHANGED <<refresh, items, outcome, host_error, convert_result,
                           attempted, last_update>>
    /\ UNCHANGED <<now, euro_to_currency, configVars, queryVars, pending, cur_dest,
                   cur_time, leaves_read, pre_rates, pre_last_update>>
    /\ UNCHANGED <<dirty, bVars, feed>>

\* update_exchange_rates(): urlopen, read, namespace discovery, parse, findall
Fetch(r) ==
    /\ pc = "fetch"
    /\ fetches' = fetches + 1
    /\ IF FetchError(r) # ""
       THEN Abort(FetchError(r))
       ELSE /\ pc' = "insert"
            /\ UNCHANGED <<refresh, items, outcome, host_error, convert_result,
                           attempted>>
    /\ UNCHANGED <<now, cacheVars, configVars, queryVars, pending, cur_dest, cur_time,
                   leaves_read, pre_rates, pre_last_update>>
    /\ UNCHANGED <<dirty, bVars>>
    /\ UNCHANGED feed

\* update_exchange_rates(): one iteration of the loop over the leaves
InsertLeaf(leaf) ==
    /\ pc = "insert"
    /\ leaves_read < MaxLeaves
    /\ UNCHANGED <<now, last_update, configVars, queryVars, pending, cur_dest, cur_time,
                   pre_rates, pre_last_update, fetches>>
    /\ IF LeafError(leaf) # ""
       THEN /\ leaves_read' = 0
            /\ Abort(LeafError(leaf))
            /\ UNCHANGED <<euro_to_currency, feed>>
       ELSE /\ euro_to_currency' = InsertedLeaf(euro_to_currency, leaf)
            /\ feed' = Put(feed, leaf["currency"], leaf["rate"])
            /\ leaves_read' = leaves_read + 1
            /\ UNCHANGED <<pc, refresh, items, outcome, host_error, convert_result,
                           attempted>>
    /\ dirty' = TRUE
    /\ UNCHANGED bVars

\* Stamp, with the time read before the fetch
Stamp_CurTime ==
    /\ pc = "insert"
    /\ last_update' = cur_time
    /\ refresh' = "ok"
    /\ leaves_read' = 0
    /\ pc' = "lookup"
    /\ UNCHANGED <<now, euro_to_currency, configVars, queryVars, pending, items,
                   cur_dest, cur_time, outcome, host_error, pre_rates,
                   pre_last_update, fetches, convert_result, attempted>>
    /\ dirty' = FALSE
    /\ UNCHANGED <<bVars, feed>>

\* update_exchange_rates(): the loop ends, self.last_update = datetime.now(UTC)
Stamp ==
    /\ pc = "insert"
    /\ last_update' = now
    /\ refresh' = "ok"
    /\ leaves_read' = 0
    /\ pc' = "lookup"
    /\ UNCHANGED <<now, euro_to_currency, configVars, queryVars, pending, items,
                   cur_dest, cur_time, outcome, host_error, pre_rates,
                   pre_last_update, fetches, convert_result, attempted>>
    /\ dirty' = FALSE
    /\ UNCHANGED bVars
    /\ UNCHANGED feed

\* get_amount_in_dest_currency() after the refresh, and the rest of
\* create_item()
Lookup ==
    /\ pc = "lookup"
    /\ UNCHANGED <<now, cacheVars, configVars, queryVars, pending, cur_dest, cur_time,
                   leaves_read, pre_rates, pre_last_update, fetches, refresh>>
    /\ IF ~Known(euro_to_currency, src_currency, cur_dest)
       THEN Raise("ValueError")
       ELSE LET v == Amount(src_amount, euro_to_currency[src_currency],
                            euro_to_currency[cur_dest])
            IN  /\ convert_result' = [kind |-> "value", error |-> "", value |-> v]
                /\ attempted' = Append(attempted, [dest |-> cur_dest, ok |-> TRUE,
                                                   fetches |-> fetches,
                                                   refresh |-> refresh])
                /\ Returned(<<StandardItem(src_amount, src_currency, cur_dest, v)>>)
    /\ UNCHANGED <<dirty, bVars>>
    /\ UNCHANGED feed

\* ------------------------------------------- a second, concurrent caller
\* The queries sent while a second convert call runs
ConcQueries == { <<"1", "usd", "GBP">>, <<"10", "GBP">> }

\* what a step of the second call leaves alone of the first
aVars == <<configVars, queryVars, callVars, pc, pending, items, cur_dest, cur_time,
           leaves_read, outcome, host_error, attempted, feed>>

\* get_amount_in_dest_currency() is entered by a second thread
B_Call ==
    /\ pcB = "idle"
    /\ pcB' = "check"
    /\ b_result' = "none"
    /\ b_seen' = EmptyDict
    /\ b_leaves' = 0
    /\ UNCHANGED <<now, cacheVars, aVars, dirty, b_time>>

\* update_exchange_rates() of the second call: the clock and the window test
B_Check ==
    /\ pcB = "check"
    /\ b_time' = now
    /\ pcB' = IF CacheHit(now, last_update) THEN "lookup" ELSE "clear"
    /\ UNCHANGED <<now, cacheVars, aVars, dirty, b_leaves, b_result, b_seen>>

\* update_exchange_rates() of the second call: self.euro_to_currency.clear()
B_Clear ==
    /\ pcB = "clear"
    /\ euro_to_currency' = EmptyDict
    /\ dirty' = TRUE
    /\ pcB' = "seed"
    /\ UNCHANGED <<now, last_update, aVars, b_time, b_leaves, b_result, b_seen>>

\* update_exchange_rates() of the second call: the EUR seed
B_Seed ==
    /\ pcB = "seed"
    /\ euro_to_currency' = Seeded(euro_to_currency)
    /\ dirty' = TRUE
    /\ pcB' = "fetch"
    /\ UNCHANGED <<now, last_update, aVars, b_time, b_leaves, b_result, b_seen>>

\* update_exchange_rates() of the second call: urlopen up to findall
B_Fetch(r) ==
    /\ pcB = "fetch"
    /\ IF FetchError(r) # ""
       THEN pcB' = "idle" /\ b_result' = FetchError(r)
       ELSE pcB' = "insert" /\ b_result' = b_result
    /\ UNCHANGED <<now, cacheVars, aVars, dirty, b_time, b_leaves, b_seen>>

\* update_exchange_rates() of the second call: one iteration over the leaves
B_Insert(leaf) ==
    /\ pcB = "insert"
    /\ b_leaves < MaxLeaves
    /\ IF LeafError(leaf) # ""
       THEN /\ pcB' = "idle"
            /\ b_result' = LeafError(leaf)
            /\ b_leaves' = 0
            /\ UNCHANGED euro_to_currency
       ELSE /\ euro_to_currency' = InsertedLeaf(euro_to_currency, leaf)
            /\ b_leaves' = b_leaves + 1
            /\ UNCHANGED <<pcB, b_result>>
    /\ dirty' = TRUE
    /\ UNCHANGED <<now, last_update, aVars, b_time, b_seen>>

\* update_exchange_rates() of the second call: self.last_update = now
B_Stamp ==
    /\ pcB = "insert"
    /\ last_update' = now
    /\ dirty' = FALSE
    /\ b_leaves' = 0
    /\ pcB' = "lookup"
    /\ UNCHANGED <<now, euro_to_currency, aVars, b_time, b_result, b_seen>>

\* get_amount_in_dest_currency() of the second call: the membership test
\* reads the shared mapping
B_Lookup ==
    /\ pcB = "lookup"
    /\ b_seen' = euro_to_currency
    /\ b_result' = "read"
    /\ pcB' = "idle"
    /\ UNCHANGED <<now, cacheVars, aVars, dirty, b_time, b_leaves>>

Next ==
    \/ Tick
    \/ \E q \in Queries : Query(q)
    \/ Explicit
    \/ LoopEnd
    \/ LoopSkip
    \/ LoopCall
    \/ CheckStale
    \/ Clear
    \/ Seed
    \/ \E r \in Responses : Fetch(r)
    \/ \E leaf \in LeafSet : InsertLeaf(leaf)
    \/ Stamp
    \/ Lookup

Spec == Init /\ [][Next]_vars

\* one query at a time from the host, a second convert call on the same
\* european_central_bank beside it, no lock between them; the calls are
\* taken to run within one reading of the clock
NextConc ==
    \/ \E q \in ConcQueries : Query(q)
    \/ Explicit
    \/ LoopEnd
    \/ LoopSkip
    \/ LoopCall
    \/ CheckStale
    \/ Clear
    \/ Seed
    \/ \E r \in Responses : Fetch(r)
    \/ \E leaf \in LeafSet : InsertLeaf(leaf)
    \/ Stamp
    \/ Lookup
    \/ B_Call
    \/ B_Check
    \/ B_Clear
    \/ B_Seed
    \/ \E r \in Responses : B_Fetch(r)
    \/ \E leaf \in LeafSet : B_Insert(leaf)
    \/ B_Stamp
    \/ B_Lookup

SpecConc == Init /\ [][NextConc]_vars

TypeOK ==
    /\ now \in StartTime..MaxTime
    /\ last_update \in EPOCH..MaxTime
    /\ pc \in {"idle", "explicit", "loop", "check", "clear", "seed", "fetch",
               "insert", "lookup"}
    /\ outcome \in {"none", "yielded", "returned", "raised"}
    /\ refresh \in {"none", "hit", "ok"} \cup Errors
    /\ fetches \in 0..1
    /\ dirty \in BOOLEAN
    /\ pcB \in {"idle", "check", "clear", "seed", "fetch", "insert", "lookup"}
    /\ b_time \in EPOCH..MaxTime
    /\ b_leaves \in 0..MaxLeaves
    /\ b_result \in {"none", "read"} \cup Errors

\* ================================================================== claims
\* the tokens of the model that float() accepts
NumericTokens == {"1", "10", "15"}

RefreshFailed == refresh \in Errors

\* get_amount_in_dest_currency() has ended for the last create_item() call
CallEnded == convert_result.kind # "none"

\* the last query has ended
QueryEnded == pc = "idle" /\ outcome # "none"

One == [m |-> Pow2(Precision - 1), e |-> 1 - Precision]

\* ---- C1
\* C1 (as claimed): after a refresh that was attempted and failed, the rates
\* mapping and last_update equal their values before the call.
C1_FailedRefreshKeepsSnapshot ==
    RefreshFailed => (euro_to_currency = pre_rates /\ last_update = pre_last_update)

\* ---- C2
\* C2: a conversion requested at cur_time with the snapshot fetched at
\* pre_last_update: within the window (boundary included) it fetches nothing
\* and leaves the cache as it was; beyond the window it makes exactly one
\* fetch attempt.
C2_StalenessWindow ==
    /\ fetches <= 1
    /\ CallEnded =>
         /\ (cur_time - pre_last_update <= CACHE_TIME) =>
               /\ fetches = 0
               /\ euro_to_currency = pre_rates
               /\ last_update = pre_last_update
         /\ (cur_time - pre_last_update > CACHE_TIME) => fetches = 1

\* a call exactly at the boundary of the window, served without a fetch
C2_Witness ==
    /\ CallEnded
    /\ pre_last_update # EPOCH
    /\ cur_time - pre_last_update = CACHE_TIME
    /\ fetches = 0
    /\ convert_result.kind = "value"

\* ---- C3
\* C3 (as claimed): no error of a conversion ever leaves the query entry
\* point for the host.
C3_NoErrorReachesHost == outcome # "raised"

\* ---- C4
\* C4: when the refresh a convert call triggered fails, that call ends in
\* the same error; it returns no amount.
C4_RefreshFailurePropagates ==
    RefreshFailed => (convert_result.kind = "error" /\ convert_result.error = refresh)

\* a failed refresh of a call whose request the stale mapping could have
\* served
C4_Witness ==
    /\ refresh = "KeyError"
    /\ convert_result.kind = "error"
    /\ src_currency \in DOMAIN pre_rates
    /\ cur_dest \in DOMAIN pre_rates

\* ---- C5
\* C5: once the refresh has completed without error, the call fails iff
\* the source or the destination is absent from the rates mapping, always
\* with ValueError, and a failed lookup changes neither the mapping nor
\* last_update.
C5_UnknownCurrency ==
    [][(pc = "lookup" /\ refresh \in {"hit", "ok"}) =>
         /\ (convert_result'.kind = "error") <=>
               (src_currency \notin DOMAIN euro_to_currency
                  \/ cur_dest \notin DOMAIN euro_to_currency)
         /\ (convert_result'.kind = "error") =>
               /\ convert_result'.error = "ValueError"
               /\ UNCHANGED <<euro_to_currency, last_update>>
         /\ (convert_result'.kind # "error") => convert_result'.kind = "value"]_vars

\* a lookup that failed although the source is present: the destination is
\* the missing one
C5_Witness ==
    /\ CallEnded
    /\ refresh = "ok"
    /\ convert_result.kind = "error"
    /\ src_currency \in DOMAIN euro_to_currency
    /\ cur_dest \notin DOMAIN euro_to_currency

\* ---- C6
\* |a - b| <= 4 * 2^-Precision * b for floats a, b with b > 0
WithinTolerance(a, b) ==
    LET lo == IF a.e < b.e THEN a.e ELSE b.e
    IN  Abs(FDiff(a, b)) * Pow2(Precision) <= 4 * b.m * Pow2(b.e - lo)

\* C6 (as claimed): a returned amount is (amount / rates[X]) * rates[Y], and
\* for amount 1 it equals rates[Y] / rates[X].
C6_TriangulationExact ==
    convert_result.kind = "value" =>
        /\ convert_result.value =
              FMul(FDiv(src_amount, euro_to_currency[src_currency]),
                   euro_to_currency[cur_dest])
        /\ src_amount = One =>
              convert_result.value =
                 FDiv(euro_to_currency[cur_dest], euro_to_currency[src_currency])

\* C6 (amended): a returned amount is the float (amount / rates[X]) * rates[Y],
\* each operation rounded, and for amount 1 it equals rates[Y] / rates[X]
\* within floating-point tolerance (4 units of roundoff), not exactly.
C6_Triangulation ==
    convert_result.kind = "value" =>
        /\ convert_result.value =
              FMul(FDiv(src_amount, euro_to_currency[src_currency]),
                   euro_to_currency[cur_dest])
        /\ src_amount = One =>
              WithinTolerance(convert_result.value,
                 FDiv(euro_to_currency[cur_dest], euro_to_currency[src_currency]))

\* an amount of 1 converted between two different currencies of the feed
C6_Witness ==
    /\ convert_result.kind = "value"
    /\ src_amount = One
    /\ src_currency = "USD"
    /\ cur_dest = "GBP"

\* ---- C7
RECURSIVE Dests(_)
Dests(seq) == IF seq = <<>> THEN <<>> ELSE <<Head(seq).dest>> \o Dests(Tail(seq))

RECURSIVE ItemDests(_)
ItemDests(seq) == IF seq = <<>> THEN <<>> ELSE <<Head(seq).id[2]>> \o ItemDests(Tail(seq))

NotSource(d) == d # src_currency

Succeeded(a) == a.ok

\* C7 (as claimed): a 2-token query ends with a result list; every default
\* destination other than the source was converted, in configured order, a
\* failure stopping none of the later ones; the list holds exactly the items
\* of the conversions that succeeded, in that order.
C7_DefaultsBatch ==
    (QueryEnded /\ Len(parts) = 2 /\ parts[1] \in NumericTokens) =>
        /\ outcome = "yielded"
        /\ Dests(attempted) = SelectSeq(defaults_dests, NotSource)
        /\ ItemDests(items) = Dests(SelectSeq(attempted, Succeeded))

\* ---- C8
\* C8: a 3-token query attempts exactly one conversion, from the resolved
\* source to the resolved destination; it yields exactly one item when the
\* conversion succeeds and nothing on the unknown-currency error, also when
\* the destination equals the source.
C8_ExplicitDestination ==
    (QueryEnded /\ Len(parts) = 3 /\ parts[1] \in NumericTokens) =>
        /\ Len(attempted) = 1
        /\ attempted[1].dest = get_alias(parts[3])
        /\ src_currency = get_alias(parts[2])
        /\ attempted[1].ok =>
              /\ outcome = "yielded"
              /\ Len(items) = 1
              /\ items[1].id = <<get_alias(parts[2]), get_alias(parts[3])>>
        /\ (convert_result.error = "ValueError" /\ refresh \in {"hit", "ok"}) =>
              /\ outcome = "returned"
              /\ items = <<>>

\* an explicit destination equal to the source yields one item
C8_Witness ==
    /\ QueryEnded
    /\ Len(parts) = 3
    /\ src_currency = dest_currency
    /\ outcome = "yielded"
    /\ Len(items) = 1

\* ---- C9
\* C9: a query with a token count other than 2 and 3, or with a first token
\* that is no number, yields nothing, raises nothing, attempts no conversion
\* and no fetch, and leaves the cache as it was.
C9_MalformedQuery ==
    (QueryEnded /\ (Len(parts) \notin {2, 3} \/ parts[1] \notin NumericTokens)) =>
        /\ outcome = "returned"
        /\ items = <<>>
        /\ attempted = <<>>
        /\ fetches = 0
        /\ refresh = "none"
        /\ euro_to_currency = pre_rates
        /\ last_update = pre_last_update

\* a query with a non-numeric amount, sent while the cache is stale
C9_Witness ==
    /\ QueryEnded
    /\ Len(parts) = 3
    /\ parts[1] = "usd"
    /\ last_update # EPOCH
    /\ now - last_update > CACHE_TIME
    /\ "USD" \in DOMAIN euro_to_currency

\* ---- C10
\* C10 (as claimed): after a successful fetch the mapping holds EUR with
\* value exactly 1.0, whatever the feed lists.
C10_EuroIsOne ==
    refresh = "ok" =>
        ("EUR" \in DOMAIN euro_to_currency /\ euro_to_currency["EUR"] = One)

C12_RetryAfterFailure ==
    [][ /\ RefreshFailed => (dirty /\ now - last_update > CACHE_TIME)
        /\ (pc = "check" /\ dirty) => pc' = "clear"
        /\ pc = "clear" => pc' = "seed"
        /\ pc = "seed" => pc' = "fetch"
        /\ (pc = "fetch" /\ pc' # "fetch") => fetches' = fetches + 1 ]_vars

\* the conversion after a failed one of the same query starts its own
\* refresh, at the very time of the failure
C12_Witness ==
    /\ pc = "clear"
    /\ dirty
    /\ attempted # <<>>
    /\ attempted[Len(attempted)].refresh \in Errors
    /\ cur_time = now
    /\ pre_last_update # EPOCH

\* ---- C13
\* C13: the cache starts with an empty mapping and last_update at the epoch;
\* while last_update is at the epoch no call takes the cache for fresh and no
\* amount is returned, and a call that finds it there performs a fetch.
C13_FirstCallFetches ==
    /\ (last_update = EPOCH /\ ~dirty) => euro_to_currency = EmptyDict
    /\ refresh = "hit" => last_update # EPOCH
    /\ convert_result.kind = "value" => last_update # EPOCH
    /\ (CallEnded /\ pre_last_update = EPOCH) => fetches = 1

\* the first conversion call of the process, its fetch successful
C13_Witness ==
    /\ CallEnded
    /\ pre_last_update = EPOCH
    /\ pre_rates = EmptyDict
    /\ fetches = 1
    /\ convert_result.kind = "value"

\* ---- C14
\* the alias resolution as the claim states it
Resolve(t) ==
    IF lower(t) \in DOMAIN aliases THEN upper(aliases[lower(t)]) ELSE upper(t)

\* C14: the source token and an explicit destination token are each resolved
\* by lower-casing, looking the result up in the alias table and upper-casing
\* what comes out; the resolved codes are the ones converted and shown.
C14_AliasResolution ==
    /\ \A k \in DOMAIN aliases : k = lower(k) /\ aliases[k] = upper(aliases[k])
    /\ (Len(parts) \in {2, 3} /\ parts[1] \in NumericTokens) =>
          /\ src_currency = Resolve(parts[2])
          /\ Len(parts) = 3 =>
                /\ dest_currency = Resolve(parts[3])
                /\ \A i \in 1..Len(attempted) : attempted[i].dest = Resolve(parts[3])
          /\ \A i \in 1..Len(items) : items[i].id[1] = Resolve(parts[2])

\* a query whose source token is an alias in mixed case, with an explicit
\* destination, converted from the aliased currency
C14_Witness ==
    /\ Len(parts) = 3
    /\ parts[2] = "Bucks"
    /\ "bucks" \in DOMAIN aliases
    /\ src_currency = "USD"
    /\ convert_result.kind = "value"
    /\ items # <<>>

\* ---- C15
\* C15 (as claimed): a conversion of an amount from a currency to itself
\* returns exactly that amount.
C15_IdentityExact ==
    (convert_result.kind = "value" /\ cur_dest = src_currency) =>
        convert_result.value = src_amount

\* C15: a conversion of an amount from a currency to itself returns the
\* amount within the rounding of one division and one multiplication.
C15_Identity ==
    (convert_result.kind = "value" /\ cur_dest = src_currency) =>
        WithinTolerance(convert_result.value, src_amount)

\* a self-conversion whose result is not the amount itself
C15_Witness ==
    /\ convert_result.kind = "value"
    /\ cur_dest = src_currency
    /\ convert_result.value # src_amount
    /\ WithinTolerance(convert_result.value, src_amount)

\* ---- C16
\* C16 (as claimed): a convert call that runs beside another one on the
\* shared cache reads, at its membership test, a completely built mapping
\* (the old snapshot or the new one): never a cleared mapping, which lacks
\* even the EUR seed, and never one that has been written to since the last
\* successful refresh ended.
C16_SnapshotIsolation ==
    /\ b_result = "read" => "EUR" \in DOMAIN b_seen
    /\ (pc = "lookup" \/ pcB = "lookup") => ~dirty

\* ---- C17
\* C17: whenever the cache is fresh the mapping has not been written to since
\* the last successful refresh ended; the membership test and the arithmetic
\* of a call run on such a mapping, stamped at most CACHE_TIME before the
\* time the call read.
C17_FreshIsComplete ==
    /\ now - last_update <= CACHE_TIME => ~dirty
    /\ pc = "lookup" => (~dirty /\ cur_time - last_update <= CACHE_TIME)
    /\ (CallEnded /\ refresh \in {"hit", "ok"}) =>
          (~dirty /\ cur_time - last_update <= CACHE_TIME)

\* within one query: a conversion whose refresh failed, then one whose
\* refresh succeeded and that returned an amount
C17_Witness ==
    /\ Len(attempted) = 2
    /\ attempted[1].refresh \in Errors
    /\ attempted[2].refresh = "ok"
    /\ attempted[2].ok
    /\ now - last_update <= CACHE_TIME

\* ---- C18
\* the conversion after one whose refresh ended well performs no fetch, the
\* one after a conversion whose refresh failed with a caught error performs
\* its own
OneFetchPerFailure(att) ==
    \A i \in 2..Len(att) :
        /\ att[i - 1].refresh \in {"hit", "ok"} => att[i].fetches = 0
        /\ att[i - 1].refresh \in Errors => att[i].fetches = 1

\* C18: last_update changes only in the last step of a successful refresh,
\* to the time of that step; within a query the conversions after a
\* successful refresh fetch nothing, and each conversion after a failed
\* refresh makes its own fetch attempt.
C18_StampLast ==
    [][ /\ last_update' # last_update =>
              (pc = "insert" /\ pc' = "lookup" /\ refresh' = "ok" /\ ~dirty'
               /\ last_update' = now)
        /\ OneFetchPerFailure(attempted') ]_vars

\* a query over two defaults, each conversion with its own failed fetch
C18_Witness ==
    /\ QueryEnded
    /\ Len(parts) = 2
    /\ Len(attempted) = 2
    /\ attempted[1].refresh = "ValueError"
    /\ attempted[1].fetches = 1
    /\ attempted[2].refresh = "ValueError"
    /\ attempted[2].fetches = 1

====
